---- MODULE Spec2Model ----
(***************************************************************************)
(* A model of dashboard.py: the derivation of the six series per country   *)
(* (get_lines, calc_trend), their assembly into the data of the plot's     *)
(* ColumnDataSource (get_dict_from_df), the Dashboard's callbacks and its  *)
(* two ranking tables.                                                     *)
(*                                                                         *)
(* Numbers are exact rationals <<n, d>> in lowest terms with d >= 0; a     *)
(* denominator 0 holds the IEEE specials of numpy: <<0, 0>> is nan and     *)
(* <<1, 0>>, <<-1, 0>> are +inf and -inf.  Floating-point rounding is not  *)
(* modelled.  A country name is a sequence of one-character strings.       *)
(***************************************************************************)
EXTENDS Integers, Sequences, FiniteSets, TLC

VARIABLES
    csv,                 \* the files read by the load at start-up
    request,             \* the arguments under parse_arguments (<<>>: none)
    refreshed,           \* what the last call of the Refresh button returned
    active_average,      \* Dashboard.active_average
    active_y_axis_type,  \* Dashboard.active_y_axis_type
    active_window_size,  \* Dashboard.active_window_size
    active_per_capita,   \* Dashboard.active_per_capita
    active_plot_raw,     \* Dashboard.active_plot_raw
    active_plot_average, \* Dashboard.active_plot_average
    active_plot_trend,   \* Dashboard.active_plot_trend
    layout,              \* Dashboard.layout: "None" until do_layout has set it
    source,              \* Dashboard.source.data (<<>> while source is None)
    top_new_source,      \* Dashboard.top_new_source.data
    top_total_source,    \* Dashboard.top_total_source.data
    world_circle_source, \* Dashboard.world_circle_source.data (the table shown)
    country_list,        \* Dashboard.country_list
    active_prefix,       \* Dashboard.active_prefix
    active_df,           \* Dashboard.active_df: which global table it refers to
    handler,             \* the last constructor or callback that ran
    outcome,             \* how it ended: "ok", or "error" when it raised
    errors,              \* how many callbacks of the session have raised
    lines                \* a direct call of get_lines: its argument and result

vars == <<csv, request, refreshed, active_average, active_y_axis_type,
          active_window_size, active_per_capita, active_plot_raw,
          active_plot_average,
          active_plot_trend, layout, source, top_new_source, top_total_source,
          world_circle_source, country_list, active_prefix, active_df,
          handler, outcome, errors, lines>>

(***************************************************************************)
(* Bounds of the model.                                                    *)
(***************************************************************************)
MaxLen == 4        \* longest generated series (number of date columns)
MaxVal == 2        \* largest count in a generated series
MaxWindow == 5     \* largest window size passed to get_lines directly
MaxSlider == 3     \* largest window size given to the Dashboard
MaxSel == 2        \* longest country selection tried
MaxErrors == 1     \* raising callbacks followed in one session

(***************************************************************************)
(* Rational arithmetic with nan and inf.                                   *)
(***************************************************************************)
Abs(a) == IF a < 0 THEN 0 - a ELSE a

Sign(a) == IF a < 0 THEN 0 - 1 ELSE IF a = 0 THEN 0 ELSE 1

RECURSIVE GCD(_, _)
GCD(a, b) == IF b = 0 THEN a ELSE GCD(b, a % b)

Rat(n, d) ==
    IF d = 0 THEN <<Sign(n), 0>>
    ELSE LET g == GCD(Abs(n), Abs(d))
             s == Sign(d)
         IN  <<(s * n) \div g, (s * d) \div g>>

Int2Rat(a) == <<a, 1>>

nan == <<0, 0>>

Zero == <<0, 1>>

isnan(v) == v = nan

RAdd(a, b) ==
    IF a[2] = 0 /\ b[2] = 0 THEN (IF a = b THEN a ELSE nan)
    ELSE IF a[2] = 0 THEN a
    ELSE IF b[2] = 0 THEN b
    ELSE Rat(a[1] * b[2] + b[1] * a[2], a[2] * b[2])

RMul(a, b) == Rat(a[1] * b[1], a[2] * b[2])

RDiv(a, b) ==
    IF b[2] = 0 THEN (IF a[2] = 0 \/ b[1] = 0 THEN nan ELSE Zero)
    ELSE Rat(a[1] * b[2], a[2] * b[1])

\* a < b for two numbers, neither nan
RLess(a, b) ==
    IF a[2] = 0 /\ b[2] = 0 THEN a[1] < b[1]
    ELSE IF a[2] = 0 THEN a[1] < 0
    ELSE IF b[2] = 0 THEN b[1] > 0
    ELSE a[1] * b[2] < b[1] * a[2]

RECURSIVE RSum(_)
RSum(s) == IF s = <<>> THEN Zero ELSE RAdd(Head(s), RSum(Tail(s)))

RECURSIVE ISum(_)
ISum(s) == IF s = <<>> THEN 0 ELSE Head(s) + ISum(Tail(s))

\* an array of n values, every value computed once
Array(n, f) == SubSeq(f, 1, n)

\* numpy: array * factor
Times(arr, factor) ==
    Array(Len(arr), [i \in 1..Len(arr) |-> RMul(arr[i], factor)])

(***************************************************************************)
(* Python and pandas primitives used by the derivation.                    *)
(***************************************************************************)
\* Python's s[-k:]: the last k elements for 0 < k < len, the whole of s for
\* k = 0 or k >= len, and s without its first -k elements for k < 0.
\* The result is the set of the (1-based) positions kept.
LastSlice(n, k) ==
    IF k > 0 THEN {i \in 1..n : i > n - k}
    ELSE IF k = 0 THEN 1..n
    ELSE {i \in 1..n : i > 0 - k}

\* x.mean() of a window of counts; of no value at all it is nan
Mean(w) == IF w = <<>> THEN nan ELSE Rat(ISum(w), Len(w))

\* np.median(x): the middle of the sorted window, or the mean of its two
\* middle values; of no value at all it is nan
Median(w) ==
    IF w = <<>> THEN nan
    ELSE LET s == SortSeq(w, LAMBDA a, b : a < b)
             k == Len(s)
         IN  IF k % 2 = 1 THEN Int2Rat(s[(k + 1) \div 2])
             ELSE Rat(s[k \div 2] + s[k \div 2 + 1], 2)

\* the selection of the median forgotten
avg_fun_mean_only(average, w) == Mean(w)

\* lines 196-198: the averaging function the view has selected
avg_fun(average, w) == IF average = "MEDIAN" THEN Median(w) ELSE Mean(w)

\* DataFrame.fillna(0)
fillna0(arr) ==
    Array(Len(arr),
          [i \in 1..Len(arr) |-> IF isnan(arr[i]) THEN Zero ELSE arr[i]])

\* DataFrame.rolling(window=w).apply(f): min_periods is the window, so a
\* position with fewer than w observations is nan; pandas refuses a negative
\* window and accepts 0, whose windows are all empty.
rolling_raises(w) == w < 0

\* rolling with min_periods=1: a shorter window is averaged, not left nan
rolling_apply_partial(y, w, average) ==
    Array(Len(y), [i \in 1..Len(y) |->
        IF w = 0 THEN avg_fun(average, <<>>)
        ELSE avg_fun(average,
                     SubSeq(y, IF i < w THEN 1 ELSE i - w + 1, i))])

rolling_apply(y, w, average) ==
    Array(Len(y), [i \in 1..Len(y) |->
        IF w = 0 THEN avg_fun(average, <<>>)
        ELSE IF i < w THEN nan
        ELSE avg_fun(average, SubSeq(y, i - w + 1, i))])

\* the difference taken the wrong way round
diff_reversed(y) ==
    Array(Len(y),
          [i \in 1..Len(y) |-> IF i = 1 THEN nan ELSE Int2Rat(y[i - 1] - y[i])])

\* DataFrame.diff(axis=0): current minus previous, nan in the first place
diff(y) ==
    Array(Len(y),
          [i \in 1..Len(y) |-> IF i = 1 THEN nan ELSE Int2Rat(y[i] - y[i - 1])])

\* the counts of an array of whole numbers (after fillna(0) of a diff)
AsInts(arr) == Array(Len(arr), [i \in 1..Len(arr) |-> arr[i][1]])

(***************************************************************************)
(* calc_trend: one least-squares line through the last window_size points, *)
(* evaluated at those points; nan before them.  x is range(len(y)), so the *)
(* point at position i (1-based) has x = i - 1.  np.polyfit raises on an   *)
(* empty slice, and on the single point x = 0 (its column scaling divides  *)
(* by zero); a single point elsewhere is fitted exactly.                   *)
(***************************************************************************)
RECURSIVE SumOver(_, _)
SumOver(S, f) ==
    IF S = {} THEN 0
    ELSE LET i == CHOOSE j \in S : TRUE IN f[i] + SumOver(S \ {i}, f)

polyfit_eval(P, y) ==
    LET k   == Cardinality(P)
        Sx  == SumOver(P, [i \in P |-> i - 1])
        Sy  == SumOver(P, [i \in P |-> y[i]])
        Sxx == SumOver(P, [i \in P |-> (i - 1) * (i - 1)])
        Sxy == SumOver(P, [i \in P |-> (i - 1) * y[i]])
        D   == k * Sxx - Sx * Sx
    IN  IF k = 1 THEN [i \in P |-> Int2Rat(y[i])]
        ELSE [i \in P |->
                Rat((Sy * Sxx - Sx * Sxy) + (i - 1) * (k * Sxy - Sx * Sy), D)]

calc_trend_raises(n, window_size) ==
    LastSlice(n, window_size) \in {{}, {1}}

\* a line fitted anew for every point, through the window ending there
calc_trend_per_point(y, window_size) ==
    LET P == LastSlice(Len(y), window_size)
    IN  Array(Len(y), [i \in 1..Len(y) |->
            IF i \in P THEN polyfit_eval(LastSlice(i, window_size), y)[i]
            ELSE nan])

calc_trend(y, window_size) ==
    LET P == LastSlice(Len(y), window_size)
        p == polyfit_eval(P, y)
    IN  Array(Len(y), [i \in 1..Len(y) |-> IF i \in P THEN p[i] ELSE nan])

(***************************************************************************)
(* The tables.  A raw table is a sequence of rows [Country_Region, cases], *)
(* one per province; a loaded table maps each country to its row: the      *)
(* summed counts, the Population and the ranking columns.                  *)
(***************************************************************************)
RECURSIVE SumRows(_, _, _)
SumRows(rows, name, n) ==
    IF rows = <<>> THEN Array(n, [i \in 1..n |-> 0])
    ELSE LET rest == SumRows(Tail(rows), name, n)
         IN  IF Head(rows).Country_Region = name
             THEN Array(n, [i \in 1..n |-> Head(rows).cases[i] + rest[i]])
             ELSE rest

\* Population / 1e6 (a pandas division: by zero it gives inf or nan)
per_million(v, Population) == RDiv(v, Rat(Population, 1000000))

\* the seven columns that end with the latest one: [-7:] in place of [-8:-1]
create_additional_columns_latest(case_col, df, df_pop) ==
    LET names == {df[r].Country_Region : r \in 1..Len(df)} \cap DOMAIN df_pop
        cols  == {i \in 1..case_col : i >= case_col - 6 /\ i <= case_col}
        row(name) ==
            LET c     == SumRows(df, name, case_col)
                daily == AsInts(fillna0(diff(c)))
                last  == Int2Rat(daily[case_col])
                avg   == Rat(SumOver(cols, [i \in cols |-> daily[i]]),
                             Cardinality(cols))
                total == Int2Rat(c[case_col])
                pop   == df_pop[name]
            IN  [cases |-> c, Population |-> pop,
                 last_day |-> last,
                 last_day_per_capita |-> per_million(last, pop),
                 avg_new |-> avg,
                 avg_new_per_capita |-> per_million(avg, pop),
                 total |-> total,
                 total_per_capita |-> per_million(total, pop)]
    IN  [name \in names |-> row(name)]

\* groupby-sum, inner merge with the population table, and the columns the
\* rankings sort by; daily is the difference over the columns [-8:-1], so
\* its last column is the day before the latest one
create_additional_columns(case_col, df, df_pop) ==
    LET names == {df[r].Country_Region : r \in 1..Len(df)} \cap DOMAIN df_pop
        cols  == {i \in 1..case_col : i >= case_col - 7 /\ i <= case_col - 1}
        row(name) ==
            LET c     == SumRows(df, name, case_col)
                daily == AsInts(fillna0(diff(c)))
                last  == Int2Rat(daily[case_col - 1])
                avg   == Rat(SumOver(cols, [i \in cols |-> daily[i]]),
                             Cardinality(cols))
                total == Int2Rat(c[case_col])
                pop   == df_pop[name]
            IN  [cases |-> c, Population |-> pop,
                 last_day |-> last,
                 last_day_per_capita |-> per_million(last, pop),
                 avg_new |-> avg,
                 avg_new_per_capita |-> per_million(avg, pop),
                 total |-> total,
                 total_per_capita |-> per_million(total, pop)]
    IN  [name \in names |-> row(name)]

(***************************************************************************)
(* The files and the module's globals.  csv names what the load at         *)
(* start-up read: the "world" files below (three dates; Germany, the US in *)
(* two provinces and a ship with a Population of 0), or generated files    *)
(* whose three case tables hold the same rows.  The globals are assigned   *)
(* once, by line 82, so they are functions of csv.                         *)
(***************************************************************************)
Germany == <<"G", "e", "r", "m", "a", "n", "y">>

US == <<"U", "S">>

Ship == <<"M", "S", " ", "Z">>

Row(name, cases) == [Country_Region |-> name, cases |-> cases]

WorldFiles ==
    [case_columns |-> 3,
     population |-> (Germany :> 2000000) @@ (US :> 500000) @@ (Ship :> 0),
     confirmed |-> <<Row(Germany, <<1, 3, 6>>), Row(US, <<0, 1, 1>>),
                     Row(US, <<2, 2, 4>>), Row(Ship, <<0, 3, 3>>)>>,
     deaths |-> <<Row(Germany, <<0, 2, 3>>), Row(US, <<0, 1, 1>>),
                  Row(US, <<0, 0, 1>>), Row(Ship, <<0, 0, 0>>)>>,
     recovered |-> <<Row(Germany, <<0, 2, 4>>), Row(US, <<1, 0, 2>>),
                     Row(US, <<0, 1, 1>>), Row(Ship, <<0, 1, 2>>)>>]

WorldCsv == [kind |-> "world", case_columns |-> 3, rows |-> <<>>,
             population |-> <<>>]

GeneratedCsv(n, rows, population) ==
    [kind |-> "generated", case_columns |-> n, rows |-> rows,
     population |-> population]

load_data_frames(files) ==
    [case_columns |-> files.case_columns,
     df_confirmed |-> create_additional_columns(files.case_columns,
                          files.confirmed, files.population),
     df_deaths |-> create_additional_columns(files.case_columns,
                       files.deaths, files.population),
     df_recovered |-> create_additional_columns(files.case_columns,
                          files.recovered, files.population),
     df_population |-> files.population]

WorldFrames == load_data_frames(WorldFiles)

GeneratedFrame ==
    create_additional_columns(csv.case_columns, csv.rows, csv.population)

case_columns == csv.case_columns

df_confirmed ==
    IF csv.kind = "world" THEN WorldFrames.df_confirmed ELSE GeneratedFrame

df_deaths ==
    IF csv.kind = "world" THEN WorldFrames.df_deaths ELSE GeneratedFrame

df_recovered ==
    IF csv.kind = "world" THEN WorldFrames.df_recovered ELSE GeneratedFrame

df_population ==
    IF csv.kind = "world" THEN WorldFrames.df_population ELSE csv.population

(***************************************************************************)
(* get_lines: the date axis and the six arrays of one country.  self holds *)
(* the fields of the Dashboard it reads; pops is the global population     *)
(* table and ncols the number of the global case_columns.                  *)
(***************************************************************************)
\* the call raises: pandas on a negative window, np.polyfit, float() of the
\* empty selection of an unknown country, or 1 / pop of a population of 0
get_lines_raises(self, pops, ncols, country, rolling_window) ==
    \/ rolling_raises(rolling_window)
    \/ calc_trend_raises(ncols, rolling_window)
    \/ /\ self.active_per_capita
       /\ (country \notin DOMAIN pops \/ pops[country] = 0)

get_lines(self, df, pops, ncols, country, rolling_window) ==
    LET x_date   == Array(ncols, [i \in 1..ncols |-> i - 1])
        absolute == IF country \in DOMAIN df THEN df[country].cases
                    ELSE Array(ncols, [i \in 1..ncols |-> 0])
        absolute_rolling ==
            fillna0(rolling_apply(absolute, rolling_window,
                                  self.active_average))
        absolute_trend == calc_trend(absolute, rolling_window)
        new_cases == fillna0(diff(absolute))
        new_cases_rolling ==
            fillna0(rolling_apply(AsInts(new_cases), rolling_window,
                                  self.active_average))
        new_cases_trend == calc_trend(AsInts(new_cases), rolling_window)
        factor   == IF self.active_per_capita
                    THEN Rat(1000000, pops[country]) ELSE Int2Rat(1)
    IN  <<x_date,
          Times([i \in 1..ncols |-> Int2Rat(absolute[i])], factor),
          Times(absolute_rolling, factor),
          Times(absolute_trend, factor),
          Times(new_cases, factor),
          Times(new_cases_rolling, factor),
          Times(new_cases_trend, factor)>>

(***************************************************************************)
(* get_dict_from_df: the data of the plot's source.  A key is the text of  *)
(* the f-string as a sequence: the characters of the country token, then   *)
(* "_" and the words of the prefix and the suffixes.                       *)
(***************************************************************************)
ws_replacement == "1"

total_suff == "cumulative"

delta_suff == "daily"

raw == "raw"

trend == "trend"

rolling == "rolling"

replace_special_chars(x) ==
    [i \in 1..Len(x) |->
        IF x[i] \in {" ", "-", "(", ")", "*"} THEN ws_replacement ELSE x[i]]

Key(country, prefix, suff, variant) ==
    country \o <<"_", prefix, "_", suff, "_", variant>>

\* the entries one pass of the loop assigns
entries(country, prefix, l) ==
    (Key(country, prefix, total_suff, raw) :> l[2])
    @@ (Key(country, prefix, total_suff, rolling) :> l[3])
    @@ (Key(country, prefix, total_suff, trend) :> l[4])
    @@ (Key(country, prefix, delta_suff, raw) :> l[5])
    @@ (Key(country, prefix, delta_suff, rolling) :> l[6])
    @@ (Key(country, prefix, delta_suff, trend) :> l[7])
    @@ (<<"x">> :> l[1])

\* an assignment replaces the entry an earlier pass made under the same key
RECURSIVE dict_loop(_, _, _, _, _, _, _)
dict_loop(self, df, pops, ncols, todo, prefix, new_dict) ==
    IF todo = <<>> THEN new_dict
    ELSE dict_loop(self, df, pops, ncols, Tail(todo), prefix,
             entries(replace_special_chars(Head(todo)), prefix,
                     get_lines(self, df, pops, ncols, Head(todo),
                               self.active_window_size))
             @@ new_dict)

\* the first get_lines that raises ends the loop and the call
get_dict_from_df_raises(self, pops, ncols, countries) ==
    \E i \in 1..Len(countries) :
        get_lines_raises(self, pops, ncols, countries[i],
                         self.active_window_size)

get_dict_from_df(self, df, pops, ncols, countries, prefix) ==
    dict_loop(self, df, pops, ncols, countries, prefix, <<>>)

(***************************************************************************)
(* generate_plot, as far as the callbacks depend on it: it raises when the *)
(* data holds no daily_raw series (max of an empty list) and when a key's  *)
(* country token has no colour (color_dict is built from the countries of  *)
(* df_confirmed).                                                          *)
(***************************************************************************)
color_dict(df) == {replace_special_chars(x) : x \in DOMAIN df}

\* vals.split('_')[0]
FirstToken(k) ==
    LET cut == {i \in 1..Len(k) : k[i] = "_"}
    IN  IF cut = {} THEN k
        ELSE SubSeq(k, 1, (CHOOSE i \in cut : \A j \in cut : i <= j) - 1)

\* f"{delta_suff}_{raw}" in k
IsDailyRaw(k) ==
    \E i \in 1..Len(k) - 2 :
        k[i] = delta_suff /\ k[i + 1] = "_" /\ k[i + 2] = raw

generate_plot_raises(data, colours) ==
    \/ ~ \E k \in DOMAIN data : IsDailyRaw(k)
    \/ \E k \in DOMAIN data : k # <<"x">> /\ FirstToken(k) \notin colours

(***************************************************************************)
(* The ranking tables.  sort_values(ascending=False) puts nan last and     *)
(* leaves the order of equal values open; head(-1) is all rows but the     *)
(* last.                                                                   *)
(***************************************************************************)
\* row o has to stand before row m
before(df, column, o, m) ==
    IF isnan(df[m][column]) THEN ~isnan(df[o][column])
    ELSE ~isnan(df[o][column]) /\ RLess(df[m][column], df[o][column])

RECURSIVE sorted_orders(_, _, _)
sorted_orders(df, column, names) ==
    IF names = {} THEN {<<>>}
    ELSE UNION {{<<m>> \o t : t \in sorted_orders(df, column, names \ {m})} :
                m \in {m \in names :
                          \A o \in names : ~before(df, column, o, m)}}

sort_values(df, column) == sorted_orders(df, column, DOMAIN df)

\* the first row dropped instead of the last
drop_first(s) == SubSeq(s, 2, Len(s))

head_minus_1(s) == SubSeq(s, 1, Len(s) - 1)

generate_table_new(df, per_capita) ==
    LET column_avg      == IF per_capita THEN "avg_new_per_capita"
                           ELSE "avg_new"
        column_last_day == IF per_capita THEN "last_day_per_capita"
                           ELSE "last_day"
    IN  {[i \in 1..Len(current) |->
             [name |-> current[i],
              number_rolling |-> df[current[i]][column_avg],
              number_daily |-> df[current[i]][column_last_day]]] :
         current \in {head_minus_1(s) : s \in sort_values(df, column_avg)}}

generate_table_cumulative(df, per_capita) ==
    LET column == IF per_capita THEN "total_per_capita" ELSE "total"
    IN  {[i \in 1..Len(current) |->
             [name |-> current[i], number |-> df[current[i]][column]]] :
         current \in {head_minus_1(s) : s \in sort_values(df, column)}}

(***************************************************************************)
(* The request arguments and parse_arguments.  A request maps each key it  *)
(* holds to its list of values; texts are sequences of characters.         *)
(***************************************************************************)
Uppers == <<"A", "B", "E", "G", "L", "M", "N", "R", "S", "T", "U", "Y", "Z">>

Lowers == <<"a", "b", "e", "g", "l", "m", "n", "r", "s", "t", "u", "y", "z">>

\* the text as it is
lower_as_written(x) == x

\* str.lower()
lower(x) ==
    [i \in 1..Len(x) |->
        IF \E j \in 1..Len(Uppers) : Uppers[j] = x[i]
        THEN Lowers[CHOOSE j \in 1..Len(Uppers) : Uppers[j] = x[i]]
        ELSE x[i]]

\* {x.lower(): x for x in unique_countries}, as the set of its keys and the
\* lookup of a key
countries_lower_dict_keys(df) == {lower(x) : x \in DOMAIN df}

countries_lower_dict(df, k) == CHOOSE x \in DOMAIN df : lower(x) = k

RECURSIVE resolve(_, _)
resolve(df, cs) ==
    IF cs = <<>> THEN <<>>
    ELSE IF lower(Head(cs)) \in countries_lower_dict_keys(df)
         THEN <<countries_lower_dict(df, lower(Head(cs)))>>
                  \o resolve(df, Tail(cs))
         ELSE resolve(df, Tail(cs))

\* the key is looked up in the request, the value read from the arguments
\* with lower-cased keys
parse_int(arguments, args, key, default_val) ==
    IF key \in DOMAIN args THEN arguments[key][1] ELSE default_val

parse_bool(arguments, args, key, default_val) ==
    IF key \in DOMAIN args
       /\ arguments[key][1] = (IF default_val THEN "false" ELSE "true")
    THEN ~default_val ELSE default_val

\* the value of 'data' selects deaths when it is a part of the text "deaths";
\* any other value raises at line 665, and the requests tried hold none
parse_arguments(args, df) ==
    LET c0 == IF "country" \in DOMAIN args THEN resolve(df, args["country"])
              ELSE <<Germany>>
    IN  [country_list |-> IF Len(c0) = 0 THEN <<Germany>> ELSE c0,
         active_per_capita |-> parse_bool(args, args, "per_capita", FALSE),
         active_window_size |-> parse_int(args, args, "window_size", 7),
         active_plot_raw |-> parse_bool(args, args, "plot_raw", TRUE),
         active_plot_average |-> parse_bool(args, args, "plot_average", TRUE),
         active_plot_trend |-> parse_bool(args, args, "plot_trend", TRUE),
         active_y_axis_type |->
             IF "scale" \in DOMAIN args /\ args["scale"][1] = "log"
             THEN "log" ELSE "linear",
         active_prefix |->
             IF "data" \in DOMAIN args THEN "deaths" ELSE "confirmed"]

NoLines ==
    [called |-> FALSE, rolling_window |-> 0, raised |-> FALSE, value |-> <<>>]

Self(average, window_size, per_capita) ==
    [active_average |-> average, active_window_size |-> window_size,
     active_per_capita |-> per_capita]

(***************************************************************************)
(* The requests and the events tried.                                      *)
(***************************************************************************)
CountryA == <<"A">>

CountryB == <<"B">>

Atlantis == <<"A", "t", "l">>

\* the window sizes a request or a slider event may carry
SliderValues == {0 - 1} \cup 0..MaxSlider

RECURSIVE Selections(_, _)
Selections(names, k) ==
    IF k = 0 THEN {<<>>}
    ELSE LET shorter == Selections(names, k - 1)
         IN  shorter \cup
             {Append(s, c) : s \in {t \in shorter : Len(t) = k - 1},
                             c \in names}

NoRepeat(s) == \A i, j \in 1..Len(s) : i # j => s[i] # s[j]

\* the texts a request names countries by
RequestNames == {<<"g", "E", "r", "M", "a", "N", "y">>, US, Atlantis}

\* the requests tried: any subset of the keys, with these values
RequestSet ==
    UNION {
        {[k \in K |->
             CASE k = "country" -> c
               [] k = "window_size" -> <<w>>
               [] k = "per_capita" -> <<"true">>
               [] k = "data" -> <<"deaths">>
               [] k = "scale" -> <<"log">>] :
         c \in {s \in Selections(RequestNames, MaxSel) : Len(s) > 0},
         w \in SliderValues}
        : K \in SUBSET {"country", "window_size", "per_capita", "data",
                        "scale"}}

TableOf(ref) ==
    CASE ref = "df_confirmed" -> df_confirmed
      [] ref = "df_deaths" -> df_deaths
      [] ref = "df_recovered" -> df_recovered

PrefixOf(new) ==
    CASE new = 0 -> "confirmed" [] new = 1 -> "deaths" [] OTHER -> "recovered"

\* lines 82 and 670-681: the tables are loaded, the request is parsed and the
\* Dashboard is constructed (active_average is not handed to the
\* constructor, which takes its default)
Init ==
    \E args \in RequestSet :
        LET a == parse_arguments(args, WorldFrames.df_confirmed)
        IN  /\ csv = WorldCsv
            /\ request = <<>>
            /\ refreshed = "None"
            /\ active_average = "MEAN"
            /\ active_y_axis_type = a.active_y_axis_type
            /\ active_window_size = a.active_window_size
            /\ active_per_capita = a.active_per_capita
            /\ active_plot_raw = a.active_plot_raw
            /\ active_plot_average = a.active_plot_average
            /\ active_plot_trend = a.active_plot_trend
            /\ layout = "None"
            /\ source = <<>>
            /\ top_new_source = <<>>
            /\ top_total_source = <<>>
            /\ world_circle_source = "None"
            /\ country_list = a.country_list
            /\ active_prefix = a.active_prefix
            /\ active_df = (IF a.active_prefix = "deaths" THEN "df_deaths"
                            ELSE IF a.active_prefix = "recovered"
                            THEN "df_recovered" ELSE "df_confirmed")
            /\ handler = "__init__"
            /\ outcome = "ok"
            /\ errors = 0
            /\ lines = NoLines

(***************************************************************************)
(* The Dashboard's methods.  A callback that raises leaves what it had     *)
(* assigned before; the server logs the error and the session goes on.     *)
(***************************************************************************)
globals == <<csv, request, refreshed>>

\* the fields get_dict_from_df reads, as the running callback has set them
SelfNext == Self(active_average', active_window_size', active_per_capita')

\* do_layout: generate_source and generate_plot, then the widgets, the map
\* and the two tables; it runs once, right after the constructor
do_layout ==
    /\ handler = "__init__"
    /\ handler' = "do_layout"
    /\ errors' = errors
    /\ UNCHANGED <<globals, active_average, active_y_axis_type,
                   active_window_size, active_per_capita, active_plot_raw,
                   active_plot_average, active_plot_trend, country_list,
                   active_prefix, active_df, lines>>
    /\ IF get_dict_from_df_raises(SelfNext, df_population, case_columns,
                                  country_list)
       THEN /\ outcome' = "error"
            /\ UNCHANGED <<source, layout, world_circle_source,
                           top_total_source, top_new_source>>
       ELSE /\ source' = get_dict_from_df(SelfNext, TableOf(active_df),
                             df_population, case_columns, country_list,
                             active_prefix)
            /\ IF generate_plot_raises(source', color_dict(df_confirmed))
               THEN /\ outcome' = "error"
                    /\ UNCHANGED <<layout, world_circle_source,
                                   top_total_source, top_new_source>>
               ELSE /\ world_circle_source' = active_df
                    /\ top_total_source' \in
                           generate_table_cumulative(TableOf(active_df),
                                                     active_per_capita)
                    /\ top_new_source' \in
                           generate_table_new(TableOf(active_df),
                                              active_per_capita)
                    /\ layout' = "set"
                    /\ outcome' = "ok"

\* the data is rebuilt, but laid over the entries of the previous data
update_data_patching(attrname, old, new) ==
    /\ country_list' = new
    /\ IF get_dict_from_df_raises(SelfNext, df_population, case_columns, new)
       THEN outcome' = "error" /\ source' = source /\ errors' = errors + 1
       ELSE /\ source' = get_dict_from_df(SelfNext, TableOf(active_df'),
                             df_population, case_columns, new, active_prefix')
                         @@ source
            /\ outcome' = IF generate_plot_raises(source',
                                                  color_dict(df_confirmed))
                          THEN "error" ELSE "ok"
            /\ errors' = IF outcome' = "error" THEN errors + 1 ELSE errors

\* the new size is stored and the data left as it is
update_window_size_only(attr, old, new) ==
    /\ layout = "set"
    /\ errors < MaxErrors
    /\ handler' = "callback"
    /\ active_window_size' = new
    /\ outcome' = "ok"
    /\ UNCHANGED <<globals, active_average, active_y_axis_type,
                   active_per_capita, active_plot_raw, active_plot_average,
                   active_plot_trend, layout, top_new_source,
                   top_total_source, world_circle_source, active_prefix,
                   active_df, lines, country_list, source, errors>>

\* update_data: the callers have assigned the primed fields it reads
update_data(attrname, old, new) ==
    /\ country_list' = new
    /\ IF get_dict_from_df_raises(SelfNext, df_population, case_columns, new)
       THEN outcome' = "error" /\ source' = source /\ errors' = errors + 1
       ELSE /\ source' = get_dict_from_df(SelfNext, TableOf(active_df'),
                             df_population, case_columns, new, active_prefix')
            /\ outcome' = IF generate_plot_raises(source',
                                                  color_dict(df_confirmed))
                          THEN "error" ELSE "ok"
            /\ errors' = IF outcome' = "error" THEN errors + 1 ELSE errors

\* the MultiSelect's callback
on_change_countries(new) ==
    /\ layout = "set"
    /\ errors < MaxErrors
    /\ handler' = "callback"
    /\ UNCHANGED <<globals, active_average, active_y_axis_type,
                   active_window_size, active_per_capita, active_plot_raw,
                   active_plot_average, active_plot_trend, layout,
                   top_new_source, top_total_source, world_circle_source,
                   active_prefix, active_df, lines>>
    /\ update_data("value", country_list, new)

update_capita(new) ==
    /\ layout = "set"
    /\ errors < MaxErrors
    /\ handler' = "callback"
    /\ active_per_capita' = (new # 0)
    /\ UNCHANGED <<globals, active_average, active_y_axis_type,
                   active_window_size, active_plot_raw, active_plot_average,
                   active_plot_trend, layout, world_circle_source,
                   active_prefix, active_df, lines>>
    /\ top_new_source' \in
           generate_table_new(TableOf(active_df), active_per_capita')
    /\ top_total_source' \in
           generate_table_cumulative(TableOf(active_df), active_per_capita')
    /\ update_data("", country_list, country_list)

update_scale_button(new) ==
    /\ layout = "set"
    /\ errors < MaxErrors
    /\ handler' = "callback"
    /\ active_y_axis_type' = (IF new = 0 THEN "log" ELSE "linear")
    /\ UNCHANGED <<globals, active_average, active_window_size,
                   active_per_capita, active_plot_raw, active_plot_average,
                   active_plot_trend, layout, top_new_source,
                   top_total_source, world_circle_source, active_prefix,
                   active_df, lines>>
    /\ update_data("", country_list, country_list)

update_average_button(new) ==
    /\ layout = "set"
    /\ errors < MaxErrors
    /\ handler' = "callback"
    /\ active_average' = (IF new = 0 THEN "MEAN" ELSE "MEDIAN")
    /\ UNCHANGED <<globals, active_y_axis_type, active_window_size,
                   active_per_capita, active_plot_raw, active_plot_average,
                   active_plot_trend, layout, top_new_source,
                   top_total_source, world_circle_source, active_prefix,
                   active_df, lines>>
    /\ update_data("", country_list, country_list)

update_shown_plots(new) ==
    /\ layout = "set"
    /\ errors < MaxErrors
    /\ handler' = "callback"
    /\ active_plot_raw' = (0 \in new)
    /\ active_plot_average' = (1 \in new)
    /\ active_plot_trend' = (2 \in new)
    /\ UNCHANGED <<globals, active_average, active_y_axis_type,
                   active_window_size, active_per_capita, layout,
                   top_new_source, top_total_source, world_circle_source,
                   active_prefix, active_df, lines>>
    /\ update_data("", country_list, country_list)

\* the category changes and the two rankings are left as they are
update_data_frame_old_tables(new) ==
    /\ layout = "set"
    /\ errors < MaxErrors
    /\ handler' = "callback"
    /\ active_df' = (IF new = 0 THEN "df_confirmed"
                     ELSE IF new = 1 THEN "df_deaths" ELSE "df_recovered")
    /\ active_prefix' = PrefixOf(new)
    /\ UNCHANGED <<globals, active_average, active_y_axis_type,
                   active_window_size, active_per_capita, active_plot_raw,
                   active_plot_average, active_plot_trend, layout, lines>>
    /\ world_circle_source' = active_df'
    /\ UNCHANGED <<top_total_source, top_new_source>>
    /\ update_data("", country_list, country_list)

update_data_frame(new) ==
    /\ layout = "set"
    /\ errors < MaxErrors
    /\ handler' = "callback"
    /\ active_df' = (IF new = 0 THEN "df_confirmed"
                     ELSE IF new = 1 THEN "df_deaths" ELSE "df_recovered")
    /\ active_prefix' = PrefixOf(new)
    /\ UNCHANGED <<globals, active_average, active_y_axis_type,
                   active_window_size, active_per_capita, active_plot_raw,
                   active_plot_average, active_plot_trend, layout, lines>>
    /\ world_circle_source' = active_df'
    /\ top_total_source' \in
           generate_table_cumulative(TableOf(active_df'), active_per_capita)
    /\ top_new_source' \in
           generate_table_new(TableOf(active_df'), active_per_capita)
    /\ update_data("", country_list, country_list)

update_window_size(attr, old, new) ==
    /\ layout = "set"
    /\ errors < MaxErrors
    /\ handler' = "callback"
    /\ active_window_size' = new
    /\ UNCHANGED <<globals, active_average, active_y_axis_type,
                   active_per_capita, active_plot_raw, active_plot_average,
                   active_plot_trend, layout, top_new_source,
                   top_total_source, world_circle_source, active_prefix,
                   active_df, lines>>
    /\ update_data("", country_list, country_list)

\* what the widgets' events may carry
CountryChoices ==
    {s \in Selections(DOMAIN df_confirmed \cup {Atlantis}, MaxSel) :
        NoRepeat(s)}

ShownChoices == {{}, {1}, {0, 1, 2}}

Next ==
    \/ do_layout
    \/ \E new \in CountryChoices : on_change_countries(new)
    \/ \E new \in {0, 1} : update_capita(new)
    \/ \E new \in {0, 1} : update_scale_button(new)
    \/ \E new \in {0, 1} : update_average_button(new)
    \/ \E new \in ShownChoices : update_shown_plots(new)
    \/ \E new \in {0, 1, 2} : update_data_frame(new)
    \/ \E new \in SliderValues :
           update_window_size("value", active_window_size, new)

Spec == Init /\ [][Next]_vars

(***************************************************************************)
(* Direct calls of get_lines on generated series: the table holds one      *)
(* country whose cumulative counts are any series of MinLen..MaxLen counts *)
(* in 0..MaxVal, or the ten-day series of the documented scenario.         *)
(***************************************************************************)
MinLen == 2   \* create_additional_columns needs a column before the last

ExampleSeries == <<0, 0, 1, 1, 3, 3, 6, 6, 10, 10>>

AllSeries ==
    UNION {[1..n -> 0..MaxVal] : n \in MinLen..MaxLen} \cup {ExampleSeries}

WindowSizes == {0 - 1} \cup 0..MaxWindow

\* the per-capita flag with a population: off, on with no people, on
PerCapitaCases == {<<FALSE, 1000000>>, <<TRUE, 0>>, <<TRUE, 500000>>}

LinesInit ==
    \E y \in AllSeries, pc \in PerCapitaCases :
        /\ csv = GeneratedCsv(Len(y), <<Row(CountryA, y)>>,
                               (CountryA :> pc[2]))
        /\ request = <<>>
        /\ refreshed = "None"
        /\ active_average \in {"MEAN", "MEDIAN"}
        /\ active_per_capita = pc[1]
        /\ active_y_axis_type = "linear"
        /\ active_window_size = 7
        /\ active_plot_raw = TRUE
        /\ active_plot_average = TRUE
        /\ active_plot_trend = TRUE
        /\ layout = "None"
        /\ source = <<>>
        /\ top_new_source = <<>>
        /\ top_total_source = <<>>
        /\ world_circle_source = "None"
        /\ country_list = <<CountryA>>
        /\ active_prefix = "confirmed"
        /\ active_df = "df_confirmed"
        /\ handler = "__init__"
        /\ outcome = "ok"
        /\ errors = 0
        /\ lines = NoLines

call_get_lines(rolling_window) ==
    LET self == Self(active_average, active_window_size, active_per_capita)
        bad  == get_lines_raises(self, df_population, case_columns, CountryA,
                                 rolling_window)
    IN  /\ lines' = [called |-> TRUE, rolling_window |-> rolling_window,
                     raised |-> bad,
                     value |-> IF bad THEN <<>>
                               ELSE get_lines(self, df_confirmed,
                                              df_population, case_columns,
                                              CountryA, rolling_window)]
        /\ UNCHANGED <<csv, request, refreshed, active_average,
                       active_y_axis_type,
                       active_window_size, active_per_capita, active_plot_raw,
                       active_plot_average, active_plot_trend, layout, source,
                       top_new_source, top_total_source, world_circle_source,
                       country_list, active_prefix, active_df, handler,
                       outcome, errors>>

LinesNext == \E rolling_window \in WindowSizes : call_get_lines(rolling_window)

LinesSpec == LinesInit /\ [][LinesNext]_vars

\* the parts of a returned tuple (0-based positions 1..6 of the Python tuple)
Returned == lines.called /\ ~lines.raised

RawSeries == df_confirmed[CountryA].cases

cumulative_raw == lines.value[2]

cumulative_rolling == lines.value[3]

cumulative_trend == lines.value[4]

daily_raw == lines.value[5]

daily_rolling == lines.value[6]

daily_trend == lines.value[7]

(***************************************************************************)
(* Claims about get_lines and calc_trend, checked under LinesSpec.         *)
(***************************************************************************)
RNeg(a) == RMul(a, Int2Rat(0 - 1))

AllZero(arr) == \A i \in 1..Len(arr) : arr[i] = Zero

\* C7 as stated: for every window size w >= n (w = n included) the two
\* rolling arrays returned by get_lines are zero at every position.
C7_RollingZeroFromLength ==
    (Returned /\ lines.rolling_window >= case_columns)
        => (AllZero(cumulative_rolling) /\ AllZero(daily_rolling))

\* C7 amended: for every window size w > n the two rolling arrays returned
\* by get_lines have the length of the series and are zero at every position
\* (at w = n the last position holds the average of the whole series).
C7_RollingZeroBeyondLength ==
    (Returned /\ lines.rolling_window > case_columns)
        => /\ Len(cumulative_rolling) = case_columns
           /\ Len(daily_rolling) = case_columns
           /\ AllZero(cumulative_rolling)
           /\ AllZero(daily_rolling)

C7_Witness ==
    /\ Returned
    /\ lines.rolling_window > case_columns
    /\ RawSeries[case_columns] > RawSeries[1]
    /\ AllZero(cumulative_rolling)

\* C8: for 1 <= w <= n each trend array has length n, is nan exactly before
\* the final w positions, and its values lie on one line (one fit per call).
OnOneLine(t, first) ==
    \A i \in 1..Len(t) :
        (first < i /\ i < Len(t))
            => RAdd(t[i + 1], RNeg(t[i])) = RAdd(t[i], RNeg(t[i - 1]))

TrendShape(t, n, w) ==
    /\ Len(t) = n
    /\ \A i \in 1..n : isnan(t[i]) <=> i <= n - w
    /\ OnOneLine(t, n - w + 1)

C8_TrendCoversFinalWindow ==
    (Returned /\ 1 <= lines.rolling_window
              /\ lines.rolling_window <= case_columns)
        => /\ TrendShape(cumulative_trend, case_columns, lines.rolling_window)
           /\ TrendShape(daily_trend, case_columns, lines.rolling_window)

C8_Witness ==
    /\ Returned
    /\ lines.rolling_window = 3
    /\ case_columns > 3
    /\ RawSeries[case_columns] - RawSeries[case_columns - 1]
           # RawSeries[case_columns - 1] - RawSeries[case_columns - 2]
    /\ isnan(cumulative_trend[case_columns - 3])
    /\ ~isnan(cumulative_trend[case_columns - 2])

\* C9: with per-capita off, daily_raw[0] = 0 and every cumulative count is
\* the first count plus the sum of the daily counts after the first.
C9_DiffRoundTrip ==
    (Returned /\ ~active_per_capita)
        => /\ daily_raw[1] = Zero
           /\ \A i \in 1..case_columns :
                 Int2Rat(RawSeries[i])
                     = RAdd(Int2Rat(RawSeries[1]), RSum(SubSeq(daily_raw, 2, i)))

C9_Witness ==
    /\ Returned
    /\ ~active_per_capita
    /\ RawSeries[1] > 0
    /\ RawSeries[2] < RawSeries[1]
    /\ RawSeries[case_columns] > RawSeries[2]

\* C10: for w >= 1 a rolling array is 0 before index w-1 and from there on
\* the mean or median of the w values ending at the index; the documented
\* ten-day series gives daily_raw = [0,0,1,0,2,0,3,0,4,0] and
\* cumulative_rolling[9] = 26/3.
RLessEq(a, b) == a = b \/ RLess(a, b)

\* the r-th smallest of the values of w
KthSmallest(w, r) ==
    CHOOSE v \in {w[j] : j \in 1..Len(w)} :
        /\ Cardinality({j \in 1..Len(w) : RLess(w[j], v)}) < r
        /\ Cardinality({j \in 1..Len(w) : RLessEq(w[j], v)}) >= r

Aggregate(average, w) ==
    LET k == Len(w)
    IN  IF average = "MEAN" THEN RDiv(RSum(w), Int2Rat(k))
        ELSE IF k % 2 = 1 THEN KthSmallest(w, (k + 1) \div 2)
        ELSE RDiv(RAdd(KthSmallest(w, k \div 2),
                       KthSmallest(w, k \div 2 + 1)), Int2Rat(2))

RollsOver(roll, values, w, average) ==
    /\ Len(roll) = Len(values)
    /\ \A i \in 1..Len(values) :
          roll[i] = IF i < w THEN Zero
                    ELSE Aggregate(average, SubSeq(values, i - w + 1, i))

C10_RollingAggregate ==
    /\ (Returned /\ lines.rolling_window >= 1)
         => /\ RollsOver(cumulative_rolling, cumulative_raw,
                         lines.rolling_window, active_average)
            /\ RollsOver(daily_rolling, daily_raw,
                         lines.rolling_window, active_average)
    /\ (Returned /\ RawSeries = ExampleSeries /\ lines.rolling_window = 3
          /\ active_average = "MEAN" /\ ~active_per_capita)
         => /\ daily_raw = [i \in 1..10 |->
                   Int2Rat(<<0, 0, 1, 0, 2, 0, 3, 0, 4, 0>>[i])]
            /\ cumulative_rolling[10] = <<26, 3>>

C10_Witness ==
    /\ Returned
    /\ RawSeries = ExampleSeries
    /\ lines.rolling_window = 3
    /\ active_average = "MEAN"
    /\ ~active_per_capita
    /\ cumulative_rolling[10] = <<26, 3>>
    /\ cumulative_rolling[2] = Zero

(***************************************************************************)
(* Direct calls of the two rankings on generated tables: up to MaxRows     *)
(* countries of three or of nine dates each, with equal and unequal totals *)
(* and with populations of 0 (whose per-capita values are inf or nan).     *)
(***************************************************************************)
MaxRows == 3

Letters == <<"A", "B", "C", "D", "E">>

RankSeries == {<<0, 0, 0>>, <<0, 50, 50>>, <<0, 50, 100>>}

\* series of nine dates: more dates than the eight the average looks back
LongSeries == {<<0, 0, 0, 0, 0, 0, 0, 0, 8>>, <<0, 7, 7, 7, 7, 7, 7, 7, 7>>}

RankPopulations == {0, 1000000}

\* the window sizes of the view while the rankings are computed
RankWindows == {2, 7}

RankInit ==
    \E k \in 1..MaxRows :
        \E cases \in [1..k -> RankSeries] \cup [1..k -> LongSeries],
           pops \in [1..k -> RankPopulations] :
            /\ csv = GeneratedCsv(Len(cases[1]), [i \in 1..k |->
                                         Row(<<Letters[i]>>, cases[i])],
                                  [name \in {<<Letters[i]>> : i \in 1..k} |->
                                      pops[CHOOSE i \in 1..k :
                                               <<Letters[i]>> = name]])
            /\ request = <<>>
            /\ refreshed = "None"
            /\ active_average = "MEAN"
            /\ active_per_capita \in BOOLEAN
            /\ active_y_axis_type = "linear"
            /\ active_window_size \in RankWindows
            /\ active_plot_raw = TRUE
            /\ active_plot_average = TRUE
            /\ active_plot_trend = TRUE
            /\ layout = "None"
            /\ source = <<>>
            /\ top_new_source = <<>>
            /\ top_total_source = <<>>
            /\ world_circle_source = "None"
            /\ country_list = <<CountryA>>
            /\ active_prefix = "confirmed"
            /\ active_df = "df_confirmed"
            /\ handler = "__init__"
            /\ outcome = "ok"
            /\ errors = 0
            /\ lines = NoLines

call_generate_table_cumulative ==
    /\ handler = "__init__"
    /\ handler' = "generate_table_cumulative"
    /\ top_total_source' \in
           generate_table_cumulative(TableOf(active_df), active_per_capita)
    /\ UNCHANGED <<csv, request, refreshed, active_average, active_y_axis_type,
                   active_window_size, active_per_capita, active_plot_raw,
                   active_plot_average, active_plot_trend, layout, source,
                   top_new_source, world_circle_source, country_list,
                   active_prefix, active_df, outcome, errors, lines>>

call_generate_table_new ==
    /\ handler = "__init__"
    /\ handler' = "generate_table_new"
    /\ top_new_source' \in
           generate_table_new(TableOf(active_df), active_per_capita)
    /\ UNCHANGED <<csv, request, refreshed, active_average, active_y_axis_type,
                   active_window_size, active_per_capita, active_plot_raw,
                   active_plot_average, active_plot_trend, layout, source,
                   top_total_source, world_circle_source, country_list,
                   active_prefix, active_df, outcome, errors, lines>>

RankNext == call_generate_table_cumulative \/ call_generate_table_new

RankSpec == RankInit /\ [][RankNext]_vars

(***************************************************************************)
(* Claims about the rankings, checked under RankSpec.                      *)
(***************************************************************************)
Ranked == handler \in {"generate_table_cumulative", "generate_table_new"}

RankResult ==
    IF handler = "generate_table_cumulative" THEN top_total_source
    ELSE top_new_source

\* the value the ranking at hand sorts a country by
Metric(name) ==
    TableOf(active_df)[name][
        IF handler = "generate_table_cumulative"
        THEN (IF active_per_capita THEN "total_per_capita" ELSE "total")
        ELSE (IF active_per_capita THEN "avg_new_per_capita" ELSE "avg_new")]

\* a stands above b in a descending order that puts nan last
RanksAbove(a, b) ==
    /\ ~isnan(Metric(a))
    /\ (isnan(Metric(b)) \/ RLess(Metric(b), Metric(a)))

RankedNames == {RankResult[i].name : i \in 1..Len(RankResult)}

Descending ==
    \A i, j \in 1..Len(RankResult) :
        i < j => ~RanksAbove(RankResult[j].name, RankResult[i].name)

OneRowLeftOut ==
    /\ RankedNames \subseteq DOMAIN TableOf(active_df)
    /\ Len(RankResult) = Cardinality(DOMAIN TableOf(active_df)) - 1
    /\ Cardinality(RankedNames) = Len(RankResult)

\* two countries, A with a total of 100 and B with a total of 50, ranked by
\* the cumulative total
ExampleRanking ==
    /\ handler = "generate_table_cumulative"
    /\ ~active_per_capita
    /\ DOMAIN TableOf(active_df) = {CountryA, CountryB}
    /\ TableOf(active_df)[CountryA].total = Int2Rat(100)
    /\ TableOf(active_df)[CountryB].total = Int2Rat(50)

\* C3 as stated: a ranking is the table sorted descending by its metric
\* without exactly the highest-ranked row, so that of A (100) and B (50)
\* only B is ranked
C3_RankingDropsTopRow ==
    Ranked =>
        /\ Descending
        /\ OneRowLeftOut
        /\ \A m \in DOMAIN TableOf(active_df) \ RankedNames :
               \A r \in RankedNames : ~RanksAbove(r, m)
        /\ ExampleRanking => RankResult = <<[name |-> CountryB,
                                             number |-> Int2Rat(50)]>>

\* C3 amended: a ranking is the table sorted descending by its metric (nan
\* last) without exactly the lowest-ranked row, so that of A (100) and B (50)
\* only A is ranked
C3_RankingDropsBottomRow ==
    Ranked =>
        /\ Descending
        /\ OneRowLeftOut
        /\ \A m \in DOMAIN TableOf(active_df) \ RankedNames :
               \A r \in RankedNames : ~RanksAbove(m, r)
        /\ ExampleRanking => RankResult = <<[name |-> CountryA,
                                             number |-> Int2Rat(100)]>>

C3_Witness == ExampleRanking /\ Len(RankResult) = 1

(***************************************************************************)
(* Claims about the Dashboard's callbacks, checked under Spec.             *)
(***************************************************************************)
Rebuilt ==
    get_dict_from_df(Self(active_average, active_window_size,
                          active_per_capita),
                     TableOf(active_df), df_population, case_columns,
                     country_list, active_prefix)

\* C1: after a callback that returned without an error, source.data is the
\* full get_dict_from_df of the current country_list, table, prefix, average,
\* window size and per-capita flag: no entry of an earlier setting is left
C1_SourceIsFullRebuild ==
    (handler = "callback" /\ outcome = "ok") => source = Rebuilt

C1_Witness ==
    /\ handler = "callback"
    /\ outcome = "ok"
    /\ active_average = "MEDIAN"
    /\ active_per_capita
    /\ active_prefix = "recovered"
    /\ active_window_size = 2
    /\ country_list = <<US, Germany>>

HasToken(k, token) == \E i \in 1..Len(k) : k[i] = token

\* C2: when a callback changes the category alone and returns without an
\* error, every key of the data but "x" holds the new category's prefix and
\* no key holds the old one
C2_CategoryChangeReplacesKeys ==
    [][(/\ handler' = "callback"
        /\ outcome' = "ok"
        /\ active_prefix' # active_prefix
        /\ UNCHANGED <<country_list, active_average, active_window_size,
                       active_per_capita>>)
       => /\ \A k \in DOMAIN source' :
                 k # <<"x">> => HasToken(k, active_prefix')
          /\ \A k \in DOMAIN source' : ~HasToken(k, active_prefix)]_vars

C2_Witness ==
    /\ handler = "callback"
    /\ outcome = "ok"
    /\ active_prefix = "recovered"
    /\ world_circle_source = "df_recovered"
    /\ Len(country_list) = 2
    /\ \E k \in DOMAIN source : HasToken(k, "recovered")

\* C4 as stated: after a change of the selection, a country that is not in
\* the table is not in country_list and no key of the data comes from it
C4_UnknownCountryDropped ==
    handler = "callback" =>
        /\ \A i \in 1..Len(country_list) :
               country_list[i] \in DOMAIN df_confirmed
        /\ \A k \in DOMAIN source :
               k = <<"x">> \/ FirstToken(k) \in DOMAIN df_confirmed

\* C5 as stated: with a window size below 1 the build ends in an error, so
\* that no data is built or installed for such a size
C5_NoDataForWindowBelowOne ==
    (handler # "__init__" /\ active_window_size < 1) => outcome = "error"

\* C6 as stated: a callback that ends in an error leaves the parameters, the
\* data and the rankings as they were
C6_FailedCallbackChangesNothing ==
    [][(handler' = "callback" /\ outcome' = "error")
       => UNCHANGED <<active_per_capita, active_window_size, country_list,
                      active_prefix, active_average, source, top_new_source,
                      top_total_source>>]_vars

(***************************************************************************)
(* Direct calls of get_dict_from_df on a generated table whose countries   *)
(* are "A", "A B" and "A-B", with every list of up to MaxSel of them, the  *)
(* empty list included.                                                    *)
(***************************************************************************)
Spaced == <<"A", " ", "B">>

Hyphened == <<"A", "-", "B">>

DictNames == {CountryA, Spaced, Hyphened}

DictCsv ==
    GeneratedCsv(3, <<Row(CountryA, <<0, 1, 3>>), Row(Spaced, <<1, 1, 2>>),
                      Row(Hyphened, <<0, 2, 2>>)>>,
                 [name \in DictNames |-> 1000000])

DictInit ==
    /\ csv = DictCsv
    /\ request = <<>>
    /\ refreshed = "None"
    /\ active_average \in {"MEAN", "MEDIAN"}
    /\ active_per_capita \in BOOLEAN
    /\ active_y_axis_type = "linear"
    /\ active_window_size \in SliderValues
    /\ active_plot_raw = TRUE
    /\ active_plot_average = TRUE
    /\ active_plot_trend = TRUE
    /\ layout = "None"
    /\ source = <<>>
    /\ top_new_source = <<>>
    /\ top_total_source = <<>>
    /\ world_circle_source = "None"
    /\ country_list \in Selections(DictNames, MaxSel)
    /\ \E new \in {0, 1, 2} :
           /\ active_prefix = PrefixOf(new)
           /\ active_df = (IF new = 0 THEN "df_confirmed"
                           ELSE IF new = 1 THEN "df_deaths"
                           ELSE "df_recovered")
    /\ handler = "__init__"
    /\ outcome = "ok"
    /\ errors = 0
    /\ lines = NoLines

call_get_dict_from_df ==
    LET self == Self(active_average, active_window_size, active_per_capita)
    IN  /\ handler = "__init__"
        /\ handler' = "get_dict_from_df"
        /\ IF get_dict_from_df_raises(self, df_population, case_columns,
                                      country_list)
           THEN outcome' = "error" /\ source' = source
           ELSE /\ outcome' = "ok"
                /\ source' = get_dict_from_df(self, TableOf(active_df),
                                 df_population, case_columns, country_list,
                                 active_prefix)
        /\ UNCHANGED <<csv, request, refreshed, active_average,
                       active_y_axis_type,
                       active_window_size, active_per_capita, active_plot_raw,
                       active_plot_average, active_plot_trend, layout,
                       top_new_source, top_total_source, world_circle_source,
                       country_list, active_prefix, active_df, errors, lines>>

DictNext == call_get_dict_from_df

DictSpec == DictInit /\ [][DictNext]_vars

(***************************************************************************)
(* Claims about get_dict_from_df, checked under DictSpec.                  *)
(***************************************************************************)
Listed == {country_list[i] : i \in 1..Len(country_list)}

\* the six keys the naming scheme gives a country
KeysOf(country) ==
    {Key(replace_special_chars(country), active_prefix, suff, variant) :
        suff \in {total_suff, delta_suff}, variant \in {raw, rolling, trend}}

\* C11 as stated: the dict of a country list has the entry "x" and six keys
\* of its own for each listed country, 6 * |countries| + 1 keys in all, and
\* no two different countries share a key
C11_SixKeysPerCountry ==
    (handler = "get_dict_from_df" /\ outcome = "ok") =>
        /\ <<"x">> \in DOMAIN source
        /\ Cardinality(DOMAIN source) = 6 * Cardinality(Listed) + 1
        /\ \A c \in Listed :
               KeysOf(c) \subseteq DOMAIN source /\ Cardinality(KeysOf(c)) = 6
        /\ \A c, d \in Listed : c # d => KeysOf(c) \cap KeysOf(d) = {}

(***************************************************************************)
(* Claims about the ranking by the daily average, checked under RankSpec.  *)
(***************************************************************************)
\* the new count of day i of a cumulative series (the first day has none)
Daily(c, i) == IF i = 1 THEN 0 ELSE c[i] - c[i - 1]

\* the mean of the new counts of the days lo..hi
MeanDaily(c, lo, hi) ==
    Rat(SumOver(lo..hi, [i \in lo..hi |-> Daily(c, i)]), hi - lo + 1)

\* a value in the form the per-capita flag selects
InForm(v, name) ==
    IF active_per_capita
    THEN RDiv(v, Rat(TableOf(active_df)[name].Population, 1000000))
    ELSE v

\* a ranks above b in a descending order that puts nan last
Above(a, b) == ~isnan(a) /\ (isnan(b) \/ RLess(b, a))

\* the rows of the daily ranking hold, and are sorted descending by, the
\* mean of the new counts of the days lo..hi
RankedByMeanDaily(lo, hi) ==
    /\ \A i \in 1..Len(top_new_source) :
           top_new_source[i].number_rolling =
               InForm(MeanDaily(TableOf(active_df)[top_new_source[i].name].cases,
                                lo, hi),
                      top_new_source[i].name)
    /\ \A i, j \in 1..Len(top_new_source) :
           i < j => ~Above(top_new_source[j].number_rolling,
                           top_new_source[i].number_rolling)

\* C12 as stated: the daily ranking holds and is ordered by the average of
\* the new counts over the window_size days that end at the latest date,
\* with the view's current window_size
C12_AverageOverWindowSize ==
    (handler = "generate_table_new" /\ active_window_size <= case_columns)
        => RankedByMeanDaily(case_columns - active_window_size + 1,
                             case_columns)

Max(a, b) == IF a > b THEN a ELSE b

\* C12 amended: the daily ranking holds and is ordered by the mean of the
\* new counts over the (at most seven) dates just before the latest one,
\* whatever the view's window_size is; the latest date is not part of it
C12_AverageOverSevenBeforeLatest ==
    handler = "generate_table_new"
        => RankedByMeanDaily(Max(1, case_columns - 7), case_columns - 1)

C12_Witness ==
    /\ handler = "generate_table_new"
    /\ case_columns = 9
    /\ active_window_size = 2
    /\ Len(top_new_source) >= 1
    /\ ~RankedByMeanDaily(case_columns - active_window_size + 1, case_columns)

(***************************************************************************)
(* Claims about when the rankings are recomputed, checked under Spec.      *)
(***************************************************************************)
\* both tables are rankings of the current table in the current form
RankingsCurrent ==
    /\ active_df = (IF active_prefix = "deaths" THEN "df_deaths"
                    ELSE IF active_prefix = "recovered" THEN "df_recovered"
                    ELSE "df_confirmed")
    /\ top_new_source \in
           generate_table_new(TableOf(active_df), active_per_capita)
    /\ top_total_source \in
           generate_table_cumulative(TableOf(active_df), active_per_capita)

\* C13: once do_layout has run, after every callback both ranking tables are
\* rankings of the table of the current category in the form of the current
\* per-capita flag, and a callback that changes a ranking table has changed
\* the category or the per-capita flag
C13_RankingsFollowCategoryAndForm ==
    [][/\ layout' = "set" => RankingsCurrent'
       /\ (/\ handler' = "callback"
           /\ <<top_new_source, top_total_source>>'
                  # <<top_new_source, top_total_source>>)
          => (active_prefix' # active_prefix
              \/ active_per_capita' # active_per_capita)]_vars

C13_Witness ==
    /\ handler = "callback"
    /\ outcome = "ok"
    /\ active_prefix = "recovered"
    /\ active_per_capita
    /\ Len(top_total_source) = 2
    /\ Len(top_new_source) = 2
    /\ RankingsCurrent

(***************************************************************************)
(* Direct calls of parse_arguments on the requests of RequestSet, with the *)
(* tables of the world files.                                              *)
(***************************************************************************)
ParseInit ==
    /\ csv = WorldCsv
    /\ request \in RequestSet
    /\ refreshed = "None"
    /\ active_average = "MEAN"
    /\ active_y_axis_type = "linear"
    /\ active_window_size = 7
    /\ active_per_capita = FALSE
    /\ active_plot_raw = TRUE
    /\ active_plot_average = TRUE
    /\ active_plot_trend = TRUE
    /\ layout = "None"
    /\ source = <<>>
    /\ top_new_source = <<>>
    /\ top_total_source = <<>>
    /\ world_circle_source = "None"
    /\ country_list = <<Germany>>
    /\ active_prefix = "confirmed"
    /\ active_df = "df_confirmed"
    /\ handler = "request"
    /\ outcome = "ok"
    /\ errors = 0
    /\ lines = NoLines

\* lines 670-681: the request is parsed and the Dashboard constructed
call_parse_arguments ==
    LET a == parse_arguments(request, df_confirmed)
    IN  /\ handler = "request"
        /\ handler' = "parse_arguments"
        /\ country_list' = a.country_list
        /\ active_per_capita' = a.active_per_capita
        /\ active_window_size' = a.active_window_size
        /\ active_plot_raw' = a.active_plot_raw
        /\ active_plot_average' = a.active_plot_average
        /\ active_plot_trend' = a.active_plot_trend
        /\ active_y_axis_type' = a.active_y_axis_type
        /\ active_prefix' = a.active_prefix
        /\ active_df' = (IF a.active_prefix = "deaths" THEN "df_deaths"
                         ELSE IF a.active_prefix = "recovered"
                         THEN "df_recovered" ELSE "df_confirmed")
        /\ UNCHANGED <<csv, request, refreshed, active_average, layout, source,
                       top_new_source, top_total_source, world_circle_source,
                       outcome, errors, lines>>

ParseNext == call_parse_arguments

ParseSpec == ParseInit /\ [][ParseNext]_vars

(***************************************************************************)
(* Claims about parse_arguments, checked under ParseSpec.                  *)
(***************************************************************************)
SameLetter(a, b) ==
    \/ a = b
    \/ \E j \in 1..Len(Uppers) :
           {a, b} = {Uppers[j], Lowers[j]}

EqualIgnoringCase(a, b) ==
    Len(a) = Len(b) /\ \A i \in 1..Len(a) : SameLetter(a[i], b[i])

\* the known countries a supplied name equals, ignoring case
Matches(name) == {c \in DOMAIN df_confirmed : EqualIgnoringCase(c, name)}

Found(name) == Matches(name) # {}

Canonical(names) ==
    [i \in 1..Len(names) |-> CHOOSE c \in Matches(names[i]) : TRUE]

Supplied == IF "country" \in DOMAIN request THEN request["country"] ELSE <<>>

\* the same request without its countries
WithoutCountry == [k \in DOMAIN request \ {"country"} |-> request[k]]

\* C14: the countries of a parsed request are the supplied names that equal
\* a known country ignoring case, each as the known country's identifier and
\* in the order supplied; the others are left out without an error; when
\* none is found the countries are those of the request without countries
C14_CaseInsensitiveLookup ==
    handler = "parse_arguments" =>
        /\ outcome = "ok"
        /\ (\E i \in 1..Len(Supplied) : Found(Supplied[i]))
               => country_list = Canonical(SelectSeq(Supplied, Found))
        /\ (\A i \in 1..Len(Supplied) : ~Found(Supplied[i]))
               => country_list =
                      parse_arguments(WithoutCountry, df_confirmed).country_list

C14_Witness ==
    /\ handler = "parse_arguments"
    /\ Supplied = <<Atlantis, <<"g", "E", "r", "M", "a", "N", "y">>>>
    /\ country_list = <<Germany>>

(***************************************************************************)
(* The Refresh Data button.  Its callback is load_data_frames itself       *)
(* (lines 560-561): the files are read again, as they are published by     *)
(* then, and the tuple of new tables is what the call returns.  Nothing    *)
(* takes the returned tuple, and line 82 is not run again, so the globals  *)
(* and active_df stay the tables of the start-up load.  Whether the server *)
(* calls a callback of no parameters with the click event depends on its   *)
(* version; where it does, the call raises before it reads anything.       *)
(***************************************************************************)
\* the files as published when the button is clicked: one more date
RefreshedFiles ==
    [case_columns |-> 4,
     population |-> (Germany :> 2000000) @@ (US :> 500000) @@ (Ship :> 0),
     confirmed |-> <<Row(Germany, <<1, 3, 6, 9>>), Row(US, <<0, 1, 1, 2>>),
                     Row(US, <<2, 2, 4, 5>>), Row(Ship, <<0, 3, 3, 3>>)>>,
     deaths |-> <<Row(Germany, <<0, 2, 3, 4>>), Row(US, <<0, 1, 1, 1>>),
                  Row(US, <<0, 0, 1, 2>>), Row(Ship, <<0, 0, 0, 0>>)>>,
     recovered |-> <<Row(Germany, <<0, 2, 4, 5>>), Row(US, <<1, 0, 2, 2>>),
                     Row(US, <<0, 1, 1, 3>>), Row(Ship, <<0, 1, 2, 3>>)>>]

RefreshedFrames == load_data_frames(RefreshedFiles)

refresh ==
    /\ layout = "set"
    /\ errors < MaxErrors
    /\ handler' = "load_data_frames"
    /\ \E raises \in BOOLEAN :
           IF raises
           THEN outcome' = "error" /\ errors' = errors + 1
                /\ refreshed' = refreshed
           ELSE outcome' = "ok" /\ errors' = errors
                /\ refreshed' = "RefreshedFrames"
    /\ UNCHANGED <<csv, request, active_average, active_y_axis_type,
                   active_window_size, active_per_capita, active_plot_raw,
                   active_plot_average, active_plot_trend, layout, source,
                   top_new_source, top_total_source, world_circle_source,
                   country_list, active_prefix, active_df, lines>>

\* a session with the button, the selection, the category, the per-capita
\* flag and the window size
RefreshNext ==
    \/ do_layout
    \/ refresh
    \/ \E new \in CountryChoices : on_change_countries(new)
    \/ \E new \in {0, 1} : update_capita(new)
    \/ \E new \in {0, 1, 2} : update_data_frame(new)
    \/ \E new \in SliderValues :
           update_window_size("value", active_window_size, new)

RefreshSpec == Init /\ [][RefreshNext]_vars

(***************************************************************************)
(* Claims about the refresh, checked under RefreshSpec.                    *)
(***************************************************************************)
RefreshedTable(ref) ==
    CASE ref = "df_confirmed" -> RefreshedFrames.df_confirmed
      [] ref = "df_deaths" -> RefreshedFrames.df_deaths
      [] ref = "df_recovered" -> RefreshedFrames.df_recovered

\* C15 as stated: the data a callback builds after a completed refresh is
\* built from the tables the refresh loaded
C15_RefreshedTablesAreRead ==
    (refreshed = "RefreshedFrames" /\ handler = "callback" /\ outcome = "ok")
        => source = get_dict_from_df(Self(active_average, active_window_size,
                                          active_per_capita),
                                     RefreshedTable(active_df),
                                     RefreshedFrames.df_population,
                                     RefreshedFrames.case_columns,
                                     country_list, active_prefix)

====
